---- MODULE Spec2Model ----
(***************************************************************************)
(* Push IDs and the session reducer of divortio-pushID.                    *)
(*                                                                         *)
(* A JavaScript string is a sequence of one-character strings.  The value  *)
(* null/undefined of a string-valued expression is NULL, the value null of *)
(* a number-valued expression is NULLT, and NaN is NAN.                    *)
(***************************************************************************)
EXTENDS Integers, Sequences, FiniteSets, TLC

\* ------------------------------------------------------------------------
\* JavaScript values
\* ------------------------------------------------------------------------

\* null / undefined where a string is expected (no JavaScript string is a
\* sequence holding a several-character element)
NULL == <<"null">>

\* null where a timestamp is expected (timestamps are never negative)
NULLT == -1

\* NaN, the result of Number() on a non-numeric string
NAN == -2

\* JavaScript truthiness of a string-or-null: null and "" are falsy
Truthy(s) == s # NULL /\ s # <<>>

\* JavaScript truthiness of a number-or-null: null, 0 and NaN are falsy
TruthyNum(t) == t # NULLT /\ t # 0 /\ t # NAN

\* a || b || c on numbers-or-null: the first truthy operand, else the last
OrNum(a, b, c) == IF TruthyNum(a) THEN a ELSE IF TruthyNum(b) THEN b ELSE c

\* str.split('-')
RECURSIVE SplitFrom(_, _, _)
SplitFrom(s, i, cur) ==
    IF i > Len(s) THEN <<cur>>
    ELSE IF s[i] = "-" THEN <<cur>> \o SplitFrom(s, i + 1, <<>>)
    ELSE SplitFrom(s, i + 1, Append(cur, s[i]))

Split(s) == SplitFrom(s, 1, <<>>)

\* the decimal digits
DIGITS == <<"0", "1", "2", "3", "4", "5", "6", "7", "8", "9">>

DigitValue(c) == IF \E i \in 1..10 : DIGITS[i] = c
                 THEN (CHOOSE i \in 1..10 : DIGITS[i] = c) - 1
                 ELSE NAN

\* Number(str) on the strings the model reads from storage: "" is 0, a
\* string of decimal digits is its value, a string holding any other
\* character (none of which forms a numeric literal here) is NaN
RECURSIVE NumberFrom(_, _, _)
NumberFrom(s, i, acc) ==
    IF i > Len(s) THEN acc
    ELSE IF DigitValue(s[i]) = NAN THEN NAN
    ELSE NumberFrom(s, i + 1, acc * 10 + DigitValue(s[i]))

Number(s) == NumberFrom(s, 1, 0)

\* String(n) for a non-negative integer, as the template literal formats it
RECURSIVE ToStr(_)
ToStr(n) == IF n < 10 THEN <<DIGITS[n + 1]>>
            ELSE ToStr(n \div 10) \o <<DIGITS[(n % 10) + 1]>>

\* ------------------------------------------------------------------------
\* pushID (tolerant codec, v3.6.0)
\* ------------------------------------------------------------------------

PUSH_CHARS ==
    << "0", "1", "2", "3", "4", "5", "6", "7", "8", "9",
       "A", "B", "C", "D", "E", "F", "G", "H", "I", "J", "K", "L", "M",
       "N", "O", "P", "Q", "R", "S", "T", "U", "V", "W", "X", "Y", "Z",
       "_",
       "a", "b", "c", "d", "e", "f", "g", "h", "i", "j", "k", "l", "m",
       "n", "o", "p", "q", "r", "s", "t", "u", "v", "w", "x", "y", "z",
       "~" >>

\* CHARS_MAP[c]: the index of c in PUSH_CHARS, UNDEFINED for any other c
UNDEFINED == -1

CHARS_TABLE == [c \in {PUSH_CHARS[i] : i \in 1..Len(PUSH_CHARS)} |->
                   (CHOOSE i \in 1..Len(PUSH_CHARS) : PUSH_CHARS[i] = c) - 1]

CHARS_MAP(c) == IF c \in DOMAIN CHARS_TABLE THEN CHARS_TABLE[c] ELSE UNDEFINED

\* the value of timestampNow after k rounds of Math.floor(timestampNow / 64)
RECURSIVE Floor64(_, _)
Floor64(n, k) == IF k = 0 THEN n ELSE Floor64(n \div 64, k - 1)

\* step 1 of _generateObject: the 8 time characters, filled from index 7
\* down to index 0
EncodeTime(ms) == [i \in 1..8 |-> PUSH_CHARS[(Floor64(ms, 8 - i) % 64) + 1]]

\* _decodeTime(timeStr): null on a character outside the alphabet
RECURSIVE DecodeTimeFrom(_, _, _)
DecodeTimeFrom(timeStr, i, timestamp) ==
    IF i > Len(timeStr) THEN timestamp
    ELSE IF CHARS_MAP(timeStr[i]) = UNDEFINED THEN NULLT
    ELSE DecodeTimeFrom(timeStr, i + 1, timestamp * 64 + CHARS_MAP(timeStr[i]))

_decodeTime(timeStr) == DecodeTimeFrom(timeStr, 1, 0)

\* the null result of _decodeObj
NullObj == [id |-> NULL, randomness |-> NULL, date |-> NULLT,
            stub |-> NULL, encodedTime |-> NULL]

\* _decodeObj(id)
_decodeObj(id) ==
    IF id = NULL \/ Len(id) = 0 THEN NullObj
    ELSE LET parts == Split(id) IN
         IF Len(parts) = 3
         THEN IF _decodeTime(parts[1]) = NULLT THEN NullObj
              ELSE [id |-> id, randomness |-> parts[3],
                    date |-> _decodeTime(parts[1]),
                    stub |-> parts[2], encodedTime |-> parts[1]]
         ELSE IF Len(id) < 8 THEN NullObj
              ELSE IF _decodeTime(SubSeq(id, 1, 8)) = NULLT THEN NullObj
              ELSE [id |-> id, randomness |-> SubSeq(id, 9, Len(id)),
                    date |-> _decodeTime(SubSeq(id, 1, 8)),
                    stub |-> NULL, encodedTime |-> SubSeq(id, 1, 8)]

\* publicApi.tryDecodeID(id): _decodeObj inside try/catch
tryDecodeID(id) == _decodeObj(id)

\* the mark of an exception thrown by a decode entry point
THROWN == -3

\* a decodeTime entry point without the tolerant path: it throws where
\* decodeTime returns null
decodeTimeStrict(id) ==
    IF tryDecodeID(id) = NullObj THEN THROWN ELSE tryDecodeID(id).date

\* publicApi.decodeTime(id): d ? d.date.getTime() : null
decodeTime(id) ==
    IF tryDecodeID(id) = NullObj THEN NULLT ELSE tryDecodeID(id).date

\* ------------------------------------------------------------------------
\* prng: seed = (seed * 1664525 + 1013904223) % 0xFFFFFFFF
\* The seed is kept as two 16-bit halves <<hi, lo>>, seed = hi * 65536 + lo,
\* and the arithmetic is exact: 2^32 = 1 modulo 0xFFFFFFFF.
\* ------------------------------------------------------------------------

W16 == 65536

\* (h * 2^16 + l) % 0xFFFFFFFF for h, l >= 0, as halves
FoldSeed(h, l) ==
    LET l1 == l + (h \div W16)
        h1 == (h % W16) + (l1 \div W16)
        l2 == (l1 % W16) + (h1 \div W16)
        h2 == (h1 % W16) + (l2 \div W16)
        l3 == l2 % W16
    IN  IF h2 = W16 - 1 /\ l3 = W16 - 1 THEN <<0, 0>> ELSE <<h2, l3>>

\* one advance of the recurrence; 1664525 = 25 * 2^16 + 26125 and
\* 1013904223 = 15470 * 2^16 + 62303
PrngStep(seed) ==
    LET hi  == seed[1]
        lo  == seed[2]
        mid == hi * 26125 + lo * 25
        low == hi * 25 + (mid \div W16) + 62303
    IN  FoldSeed((mid % W16) + 15470 + ((lo * 26125) \div W16),
                 low + ((lo * 26125) % W16))

\* Math.floor(prng() * 64) for the seed just produced: the top six bits
PrngIndex(seed) == seed[1] \div 1024

\* publicApi.newRnd(length): <<the string, the seed after len draws>>.
\* RndFrom is the loop, drawn being the seed the latest prng() left.
RECURSIVE RndFrom(_, _, _)
RndFrom(drawn, n, chars) ==
    IF n = 1 THEN <<Append(chars, PUSH_CHARS[PrngIndex(drawn) + 1]), drawn>>
    ELSE RndFrom(PrngStep(drawn), n - 1,
                 Append(chars, PUSH_CHARS[PrngIndex(drawn) + 1]))

Max(a, b) == IF a >= b THEN a ELSE b

newRnd(seed, length) == RndFrom(PrngStep(seed), Max(12, length), <<>>)


\* _generateObject(options): options.time is a number or NULLT (then
\* Date.now(), here clock), options.stub a string or NULL, options.randomness
\* a string or NULL (then newRnd).  Returns the object and the seed after it.
_generateObject(options, clock, seed) ==
    LET randLength == Max(12, options.length)
        now_  == IF options.time # NULLT THEN options.time ELSE clock
        rnd   == IF options.randomness # NULL
                 THEN <<options.randomness, seed>>
                 ELSE newRnd(seed, randLength)
        useDelimitedFormat == Truthy(options.stub)
        id    == IF useDelimitedFormat
                 THEN EncodeTime(now_) \o <<"-">> \o options.stub \o <<"-">> \o rnd[1]
                 ELSE EncodeTime(now_) \o rnd[1]
    IN  [obj  |-> [id |-> id, randomness |-> rnd[1], date |-> now_,
                   stub |-> IF useDelimitedFormat THEN options.stub ELSE NULL],
         seed |-> rnd[2]]

\* ------------------------------------------------------------------------
\* hashIsh
\* ------------------------------------------------------------------------

\* the printable ASCII characters, ASCII[i] having the code 31 + i (the
\* grave accent, code 96, is spelled out)
ASCII ==
    << " ", "!", "\"", "#", "$", "%", "&", "'", "(", ")", "*", "+", ",",
       "-", ".", "/", "0", "1", "2", "3", "4", "5", "6", "7", "8", "9", ":",
       ";", "<", "=", ">", "?", "@", "A", "B", "C", "D", "E", "F", "G", "H",
       "I", "J", "K", "L", "M", "N", "O", "P", "Q", "R", "S", "T", "U", "V",
       "W", "X", "Y", "Z", "[", "\\", "]", "^", "_", "grave", "a", "b", "c",
       "d", "e", "f", "g", "h", "i", "j", "k", "l", "m", "n", "o", "p", "q",
       "r", "s", "t", "u", "v", "w", "x", "y", "z", "{", "|", "}", "~" >>

CODE_TABLE == [c \in {ASCII[i] : i \in 1..Len(ASCII)} |->
                  31 + (CHOOSE i \in 1..Len(ASCII) : ASCII[i] = c)]

\* str.charCodeAt(i) for the character c = str[i]
CharCode(c) == CODE_TABLE[c]

\* a < b as JavaScript compares strings: by code units, a proper prefix
\* first
StrLess(a, b) ==
    \E i \in 1..Len(b) :
        /\ i - 1 <= Len(a)
        /\ \A j \in 1..(i - 1) : a[j] = b[j]
        /\ (i > Len(a) \/ CharCode(a[i]) < CharCode(b[i]))

\* A JavaScript value: undefined, null, a non-negative integer, a string,
\* an array (items) or a plain object (keys in insertion order, items the
\* values in the same order).
JsValue(type, n, s, keys, items) ==
    [type |-> type, n |-> n, s |-> s, keys |-> keys, items |-> items]

JsUndefined == JsValue("undefined", 0, <<>>, <<>>, <<>>)
JsNull      == JsValue("null", 0, <<>>, <<>>, <<>>)
JsNum(n)    == JsValue("number", n, <<>>, <<>>, <<>>)
JsStr(s)    == JsValue("string", 0, s, <<>>, <<>>)
JsArr(items)      == JsValue("array", 0, <<>>, <<>>, items)
JsObj(keys, items) == JsValue("object", 0, <<>>, keys, items)

\* parts.join(',')
RECURSIVE JoinComma(_)
JoinComma(parts) ==
    IF parts = <<>> THEN <<>>
    ELSE IF Len(parts) = 1 THEN parts[1]
    ELSE parts[1] \o <<",">> \o JoinComma(Tail(parts))

\* JSON.stringify(str) for a string none of whose characters is escaped
Quote(str) == <<"\"">> \o str \o <<"\"">>

\* a sort() that leaves the keys as Object.keys returns them, in insertion
\* order
SortKeys_InsertionOrder(keys) == keys

\* keys.sort(): distinct strings in ascending order of code units
SortKeys(keys) ==
    [i \in 1..Len(keys) |->
        keys[CHOOSE j \in 1..Len(keys) :
                Cardinality({m \in 1..Len(keys) :
                                StrLess(keys[m], keys[j])}) = i - 1]]

\* val[key]
Prop(val, key) == val.items[CHOOSE i \in 1..Len(val.keys) : val.keys[i] = key]

\* _serialize(val), hashIsh.js lines 15-20
RECURSIVE _serialize(_)
_serialize(val) ==
    IF val.type \in {"null", "undefined"} THEN <<"n", "u", "l", "l">>
    ELSE IF val.type = "number" THEN ToStr(val.n)
    ELSE IF val.type = "string" THEN Quote(val.s)
    ELSE IF val.type = "array"
    THEN <<"[">> \o JoinComma([i \in 1..Len(val.items) |->
                                  _serialize(val.items[i])]) \o <<"]">>
    ELSE <<"{">> \o JoinComma([i \in 1..Len(val.keys) |->
                      Quote(SortKeys(val.keys)[i]) \o <<":">>
                         \o _serialize(Prop(val, SortKeys(val.keys)[i]))])
               \o <<"}">>

\* The 32-bit words h1..h4 are kept as two 16-bit halves <<hi, lo>>, the
\* word being hi * 65536 + lo read as an unsigned bit pattern.

\* a ^ b on numbers of n bits
RECURSIVE Xor(_, _, _)
Xor(a, b, n) ==
    IF n = 0 THEN 0
    ELSE ((a + b) % 2) + 2 * Xor(a \div 2, b \div 2, n - 1)

XorW(x, y) == <<Xor(x[1], y[1], 16), Xor(x[2], y[2], 16)>>

\* (a * b) % 2^16 and Math.floor(a * b / 2^16) for 0 <= a, b < 2^16, no
\* intermediate value reaching 2^31
MulLo(a, b) == ((((a \div 256) * b) % 256) * 256 + (a % 256) * b) % W16

MulHi(a, b) ==
    (((a \div 256) * b) \div 256)
      + ((((a \div 256) * b) % 256) * 256 + (a % 256) * b) \div W16

\* Math.imul(x, c): the low 32 bits of the product
Imul(x, c) ==
    <<(MulHi(x[2], c[2]) + MulLo(x[1], c[2]) + MulLo(x[2], c[1])) % W16,
      MulLo(x[2], c[2])>>

\* 2^k
RECURSIVE Pow2(_)
Pow2(k) == IF k = 0 THEN 1 ELSE 2 * Pow2(k - 1)

\* x >>> s for 0 <= s <= 16
Shr(x, s) ==
    <<x[1] \div Pow2(s), (x[1] % Pow2(s)) * Pow2(16 - s) + x[2] \div Pow2(s)>>

\* line 24-25: 1779033703, 3144134277, 1013904242, 2773480762
HashInit == << <<27145, 58983>>, <<47975, 44677>>, <<15470, 62322>>,
               <<42319, 62778>> >>

\* the multipliers of lines 29-32: 597399067, 2869860233, 951274213,
\* 2716044179
HashMul == << <<9115, 38427>>, <<43790, 38793>>, <<14515, 19173>>,
              <<41443, 35731>> >>

\* the multipliers of lines 33-36: 2246822507 and 3266489909
MixA == <<34283, 51819>>
MixB == <<49842, 44597>>

\* lines 29-32: h4 is computed from the new h1
HashStir(h) ==
    << XorW(h[2], Imul(h[1], HashMul[1])),
       XorW(h[3], Imul(h[2], HashMul[2])),
       XorW(h[4], Imul(h[3], HashMul[3])),
       XorW(XorW(h[2], Imul(h[1], HashMul[1])), Imul(h[4], HashMul[4])) >>

\* lines 33-37, k being the character code
HashMix(h, k) ==
    << XorW(Imul(XorW(h[1], Shr(h[1], 16)), MixA), <<0, k>>),
       Imul(XorW(h[2], Shr(h[2], 13)), MixB),
       Imul(XorW(h[3], Shr(h[3], 16)), MixA),
       Imul(XorW(h[4], Shr(h[4], 13)), MixB) >>

\* the loop of lines 27-38 from character i on, h being the four words
\* before that character
RECURSIVE HashFrom(_, _, _)
HashFrom(serialized, i, h) ==
    IF i > Len(serialized) THEN h
    ELSE CHOOSE out \in
            { HashFrom(serialized, i + 1, mixed) :
                mixed \in { HashMix(stirred, CharCode(serialized[i])) :
                               stirred \in {HashStir(h)} } } : TRUE

\* line 43: (state[i % 4] >> ((i % 5) * 3)) & 63.  The shift is at most
\* 12, so the six bits kept lie below bit 18 and the sign that >> extends
\* never reaches them.
HashChar(h, i) == PUSH_CHARS[(Shr(h[(i % 4) + 1], (i % 5) * 3)[2] % 64) + 1]

\* hashIsh(input, length, PUSH_CHARS), input being a JavaScript value
hashIsh(input, length) ==
    CHOOSE hashChars \in
        { [i \in 1..length |-> HashChar(h, i - 1)] :
            h \in {HashFrom(_serialize(input), 1, HashInit)} } : TRUE

\* publicApi.hash(input, length)
hash(input, length) == hashIsh(input, Max(12, length))

\* ------------------------------------------------------------------------

\* pushID (tolerant codec, v3.6.0) on timestamps up to 2^48 - 1
\*
\* Such a timestamp, and the number _decodeTime builds, is kept as two
\* halves <<hi, lo>>: t = hi * 2^24 + lo with 0 <= lo < 2^24.  JavaScript
\* computes on these integers exactly (they are below 2^53).
\* ------------------------------------------------------------------------

W24 == 16777216

\* null where such a timestamp is expected
NULLW == <<NULLT, NULLT>>

\* a number that is 2^48 or more, whichever it is: it is no timestamp of
\* the range, and stays none when multiplied by 64
Beyond == <<W24, 0>>

\* the timestamp n, for n < 2^24
Wide(n) == <<0, n>>

\* t1 < t2
LessW(t1, t2) == t1[1] < t2[1] \/ (t1[1] = t2[1] /\ t1[2] < t2[2])

\* timestampNow % 64
Mod64(t) == t[2] % 64

\* a division that loses what the high half hands down to the low half
Div64_NoCarry(t) == <<t[1] \div 64, t[2] \div 64>>

\* Math.floor(timestampNow / 64)
Div64(t) == <<t[1] \div 64, (t[1] % 64) * (W24 \div 64) + t[2] \div 64>>

\* timestamp * 64 + charValue
Mul64Add(t, v) ==
    IF t[1] * 64 + (t[2] * 64 + v) \div W24 >= W24 THEN Beyond
    ELSE <<t[1] * 64 + (t[2] * 64 + v) \div W24, (t[2] * 64 + v) % W24>>

\* the value of timestampNow after k rounds of the loop of lines 372-375
RECURSIVE Floor64W(_, _)
Floor64W(t, k) == IF k = 0 THEN t ELSE Floor64W(Div64(t), k - 1)

\* the time characters written from index 0 up, the low digit first
EncodeTimeW_LowFirst(t) ==
    [i \in 1..8 |-> PUSH_CHARS[Mod64(Floor64W(t, i - 1)) + 1]]

\* step 1 of _generateObject (lines 370-376): the 8 time characters,
\* filled from index 7 down to index 0
EncodeTimeW(t) == [i \in 1..8 |-> PUSH_CHARS[Mod64(Floor64W(t, 8 - i)) + 1]]

\* _decodeTime(timeStr), lines 435-443
RECURSIVE DecodeTimeFromW(_, _, _)
DecodeTimeFromW(timeStr, i, timestamp) ==
    IF i > Len(timeStr) THEN timestamp
    ELSE IF CHARS_MAP(timeStr[i]) = UNDEFINED THEN NULLW
    ELSE DecodeTimeFromW(timeStr, i + 1,
                         Mul64Add(timestamp, CHARS_MAP(timeStr[i])))

_decodeTimeW(timeStr) == DecodeTimeFromW(timeStr, 1, Wide(0))

\* the null result of _decodeObj
NullObjW == [id |-> NULL, randomness |-> NULL, date |-> NULLW,
             stub |-> NULL, encodedTime |-> NULL]

\* _decodeObj(id), lines 410-427; id is a string or NULL
_decodeObjW(id) ==
    IF id = NULL \/ Len(id) = 0 THEN NullObjW
    ELSE LET parts == Split(id) IN
         IF Len(parts) = 3
         THEN IF _decodeTimeW(parts[1]) = NULLW THEN NullObjW
              ELSE [id |-> id, randomness |-> parts[3],
                    date |-> _decodeTimeW(parts[1]),
                    stub |-> parts[2], encodedTime |-> parts[1]]
         ELSE IF Len(id) < 8 THEN NullObjW
              ELSE IF _decodeTimeW(SubSeq(id, 1, 8)) = NULLW THEN NullObjW
              ELSE [id |-> id, randomness |-> SubSeq(id, 9, Len(id)),
                    date |-> _decodeTimeW(SubSeq(id, 1, 8)),
                    stub |-> NULL, encodedTime |-> SubSeq(id, 1, 8)]

\* publicApi.decodeID(id), line 513: _decodeObj has no statement that
\* throws on a string or on null
decodeID(id) == _decodeObjW(id)

\* publicApi.tryDecodeID(id), lines 526-532
tryDecodeIDW(id) == _decodeObjW(id)

\* publicApi.decodeTime(id), lines 539-542
decodeTimeW(id) ==
    IF tryDecodeIDW(id) = NullObjW THEN NULLW ELSE tryDecodeIDW(id).date

\* _generateObject(options), lines 362-402.  options.time is a timestamp
\* or NULLW (then Date.now(), here clock), options.stub a string or NULL,
\* options.length a number, options.randomness a string or NULL,
\* options.data a JavaScript value.  Returns the object and the seed after
\* the call.
_generateObjectW(options, clock, seed) ==
    LET randLength == Max(12, options.length)
        now_  == IF options.time # NULLW THEN options.time ELSE Wide(clock)
        useDelimitedFormat == Truthy(options.stub)
    IN  CHOOSE generated \in
          { [obj  |-> [id |-> IF useDelimitedFormat
                             THEN EncodeTimeW(now_) \o <<"-">> \o options.stub
                                     \o <<"-">> \o rnd[1]
                             ELSE EncodeTimeW(now_) \o rnd[1],
                       randomness |-> rnd[1], date |-> now_,
                       stub |-> IF useDelimitedFormat THEN options.stub
                                ELSE NULL],
             seed |-> rnd[2]] :
            rnd \in { IF options.randomness # NULL
                      THEN <<options.randomness, seed>>
                      ELSE IF options.data.type # "undefined"
                      THEN <<hashIsh(options.data, randLength), seed>>
                      ELSE newRnd(seed, randLength) } } : TRUE

\* ------------------------------------------------------------------------
\* pushID (strict codec, v3.5.0), on the same timestamps
\* ------------------------------------------------------------------------

\* the mark of an exception where a timestamp is expected
THROWNW == <<THROWN, THROWN>>

\* decodeTime(timeStr), lines 159-168: throws on a character outside the
\* alphabet
RECURSIVE DecodeTimeFrom_v35(_, _, _)
DecodeTimeFrom_v35(timeStr, i, timestamp) ==
    IF i > Len(timeStr) THEN timestamp
    ELSE IF CHARS_MAP(timeStr[i]) = UNDEFINED THEN THROWNW
    ELSE DecodeTimeFrom_v35(timeStr, i + 1,
                            Mul64Add(timestamp, CHARS_MAP(timeStr[i])))

decodeTime_v35(timeStr) == DecodeTimeFrom_v35(timeStr, 1, Wide(0))

\* the mark of an exception where a decoded object is expected
ThrownObj == [id |-> NULL, randomness |-> NULL, date |-> THROWNW,
              stub |-> NULL, encodedTime |-> NULL]

\* str.substring(0, n)
Prefix(str, n) == SubSeq(str, 1, IF n < Len(str) THEN n ELSE Len(str))

\* a decodeObj that takes a legacy id of any length
decodeObj_AnyLength(id) ==
    IF id = NULL \/ Len(id) = 0 THEN ThrownObj
    ELSE LET parts == Split(id) IN
         IF Len(parts) = 3
         THEN IF decodeTime_v35(parts[1]) = THROWNW THEN ThrownObj
              ELSE [id |-> id, randomness |-> parts[3],
                    date |-> decodeTime_v35(parts[1]),
                    stub |-> parts[2], encodedTime |-> parts[1]]
         ELSE IF decodeTime_v35(Prefix(id, 8)) = THROWNW THEN ThrownObj
              ELSE [id |-> id, randomness |-> SubSeq(id, 9, Len(id)),
                    date |-> decodeTime_v35(Prefix(id, 8)),
                    stub |-> NULL, encodedTime |-> Prefix(id, 8)]

\* decodeObj(id), lines 131-151; id is a string or NULL
decodeObj(id) ==
    IF id = NULL \/ Len(id) = 0 THEN ThrownObj
    ELSE LET parts == Split(id) IN
         IF Len(parts) = 3
         THEN IF decodeTime_v35(parts[1]) = THROWNW THEN ThrownObj
              ELSE [id |-> id, randomness |-> parts[3],
                    date |-> decodeTime_v35(parts[1]),
                    stub |-> parts[2], encodedTime |-> parts[1]]
         ELSE IF Len(id) < 8 THEN ThrownObj
              ELSE IF decodeTime_v35(Prefix(id, 8)) = THROWNW THEN ThrownObj
              ELSE [id |-> id, randomness |-> SubSeq(id, 9, Len(id)),
                    date |-> decodeTime_v35(Prefix(id, 8)),
                    stub |-> NULL, encodedTime |-> Prefix(id, 8)]

\* publicApi.decodeID(id), line 276
decodeID_v35(id) == decodeObj(id)

\* publicApi.decodeTime(id), line 283: decodeObj(id).date.getTime()
decodeTimeOf_v35(id) ==
    IF decodeObj(id) = ThrownObj THEN THROWNW ELSE decodeObj(id).date

\* publicApi.newRnd(length), lines 225-232: draws[i] is
\* Math.floor(Math.random() * 64) of the i-th round
newRnd_v35(length, draws) ==
    [i \in 1..Max(12, length) |-> PUSH_CHARS[draws[i] + 1]]

\* _generateObject(options), lines 56-103.  options.time is a timestamp or
\* NULLW (then Date.now(), here clock), options.stub a string or NULL (the
\* default 'pshID' stands for a stub left undefined, which no caller here
\* does), options.randomness a string or NULL, options.data a JavaScript
\* value.
_generateObject_v35(options, clock, draws) ==
    LET randLength == Max(12, options.length)
        now_    == IF options.time # NULLW THEN options.time ELSE Wide(clock)
        timeStr == EncodeTimeW(now_)
        useDelimitedFormat == Truthy(options.stub)
    IN  CHOOSE newObj \in
          { [id |-> IF useDelimitedFormat
                    THEN timeStr \o <<"-">> \o options.stub \o <<"-">>
                            \o randStr
                    ELSE timeStr \o randStr,
             randomness |-> randStr, date |-> now_,
             stub |-> IF useDelimitedFormat THEN options.stub ELSE NULL] :
            randStr \in { IF options.randomness # NULL
                          THEN options.randomness
                          ELSE IF options.data.type # "undefined"
                          THEN hash(options.data, randLength)
                          ELSE newRnd_v35(randLength, draws) } } : TRUE

\* publicApi.newID(options), line 180
newID_v35(options, clock, draws) ==
    _generateObject_v35(options, clock, draws).id

\* ------------------------------------------------------------------------

\* sessionManager (v5.0.0)
\* ------------------------------------------------------------------------

\* finalConfig.sessionTimeout, in milliseconds (configurable; kept small here)
SessionTimeout == 2

\* finalConfig.randomnessLength
RandomnessLength == 12

\* the storage keys
Keys == {"cID", "sID", "eID", "seqID"}

\* the stubs of the three identifiers
StubC == <<"c", "I", "D">>
StubS == <<"s", "I", "D">>
StubE == <<"e", "I", "D">>

\* the storage handlers passed to process(): none at all, an object with
\* get and set only, a StorageHandler with get, set, clear and config that
\* returns what was last set ("full"), serverStorage() itself, whose get
\* without a cookie header returns null and whose set only returns header
\* strings ("stateless"), the inMemoryStorageHandler of SessionManagerDO
\* ("memory"), and clientStorage(), whose values are gone once the expires
\* option of their write has passed ("expiring")
Handlers == {"none", "bare", "full", "stateless", "memory", "expiring"}

\* a process() that goes on without a storage handler
MissingHandler_Ignored(h) == FALSE

\* line 117: if (!storageHandler) throw
MissingHandler(h) == h = "none"

\* lines 189 and 192: storageHandler.config.cookieOptions is a TypeError
\* when the handler has no config
ConfigThrows(h) == h = "bare"

\* a lastActivityTime that is the age of the session: the sID's time first
lastActivityTimeOf_Age(prevEIDTime, sIDTime, cIDTime) ==
    OrNum(sIDTime, prevEIDTime, cIDTime)

\* line 140: prevEIDTime || sIDTime || cIDTime
lastActivityTimeOf(prevEIDTime, sIDTime, cIDTime) ==
    OrNum(prevEIDTime, sIDTime, cIDTime)

\* lines 139-143
isSessionExpiredOf(lastActivityTime, clock) ==
    IF TruthyNum(lastActivityTime)
    THEN (clock - lastActivityTime) > SessionTimeout
    ELSE TRUE

\* line 147
isNewClientOf(cID) == ~Truthy(cID)

\* isNewSessionOf that never expires a stored session
isNewSessionOf_NoExpiry(sID, isSessionExpired) == ~Truthy(sID)

\* line 148
isNewSessionOf(sID, isSessionExpired) == ~Truthy(sID) \/ isSessionExpired

\* finalSeqIDOf leaving the event number of a continued session as it was
finalSeqIDOf_Stuck(seqID, isNewSession) ==
    LET parts == IF Truthy(seqID) THEN Split(seqID) ELSE <<>>
        nums  == [i \in 1..Len(parts) |-> Number(parts[i])]
        same  == Truthy(seqID) /\ ~isNewSession /\ Len(parts) = 2
                   /\ nums[1] # NAN /\ nums[2] # NAN
        next  == Truthy(seqID) /\ isNewSession /\ Len(parts) = 2
                   /\ nums[1] # NAN
        sessionNum      == IF same THEN nums[1]
                           ELSE IF next THEN nums[1] + 1 ELSE 1
        sessionEventNum == IF same THEN nums[2] ELSE 1
    IN  ToStr(sessionNum) \o <<"-">> \o ToStr(sessionEventNum)

\* finalSeqIDOf counting events from 0
finalSeqIDOf_ZeroBased(seqID, isNewSession) ==
    LET parts == IF Truthy(seqID) THEN Split(seqID) ELSE <<>>
        nums  == [i \in 1..Len(parts) |-> Number(parts[i])]
        same  == Truthy(seqID) /\ ~isNewSession /\ Len(parts) = 2
                   /\ nums[1] # NAN /\ nums[2] # NAN
        next  == Truthy(seqID) /\ isNewSession /\ Len(parts) = 2
                   /\ nums[1] # NAN
        sessionNum      == IF same THEN nums[1]
                           ELSE IF next THEN nums[1] + 1 ELSE 1
        sessionEventNum == IF same THEN nums[2] + 1 ELSE 0
    IN  ToStr(sessionNum) \o <<"-">> \o ToStr(sessionEventNum)

\* lines 159-174: the new sequence id
finalSeqIDOf(seqID, isNewSession) ==
    LET parts == IF Truthy(seqID) THEN Split(seqID) ELSE <<>>
        nums  == [i \in 1..Len(parts) |-> Number(parts[i])]
        same  == Truthy(seqID) /\ ~isNewSession /\ Len(parts) = 2
                   /\ nums[1] # NAN /\ nums[2] # NAN
        next  == Truthy(seqID) /\ isNewSession /\ Len(parts) = 2
                   /\ nums[1] # NAN
        sessionNum      == IF same THEN nums[1]
                           ELSE IF next THEN nums[1] + 1 ELSE 1
        sessionEventNum == IF same THEN nums[2] + 1 ELSE 1
    IN  ToStr(sessionNum) \o <<"-">> \o ToStr(sessionEventNum)

\* new Date(pushID.decodeTime(id)).getTime(): new Date(null) is the epoch
DateOf(t) == IF t = NULLT THEN 0 ELSE t

\* the value of a Date-or-null field built as  t ? new Date(t) : null
DateOrNull(t) == IF TruthyNum(t) THEN t ELSE NULLT

NoState == [cID |-> NULL, sID |-> NULL, eID |-> NULL, seqID |-> NULL,
            clientTime |-> NULLT, sessionTime |-> NULLT, eventTime |-> NULLT]

\* a returned value whose top-level fields are those of oldState
ReturnOf_OldOnTop(status, error, newState, oldState, changes, at, end) ==
    [status |-> status, error |-> error,
     cID |-> oldState.cID, sID |-> oldState.sID, eID |-> oldState.eID,
     seqID |-> oldState.seqID, clientTime |-> oldState.clientTime,
     sessionTime |-> oldState.sessionTime, eventTime |-> oldState.eventTime,
     newState |-> newState, oldState |-> oldState, changes |-> changes,
     at |-> at, end |-> end]

\* line 198, {...newState, newState, oldState, changes}: the seven fields
\* of newState at the top level, then the three objects.  status and error
\* tell a returned value from an exception; at and end are the clock when
\* the call started and when it ended.
ReturnOf(status, error, newState, oldState, changes, at, end) ==
    [status |-> status, error |-> error,
     cID |-> newState.cID, sID |-> newState.sID, eID |-> newState.eID,
     seqID |-> newState.seqID, clientTime |-> newState.clientTime,
     sessionTime |-> newState.sessionTime, eventTime |-> newState.eventTime,
     newState |-> newState, oldState |-> oldState, changes |-> changes,
     at |-> at, end |-> end]

\* what a call of process() leaves behind when it throws
Thrown(error, at) ==
    ReturnOf("throw", error, NoState, NoState,
             [isNewClient |-> FALSE, isNewSession |-> FALSE], at, at)

\* an expires option: the Date that setFullYear has moved years years on
\* from the clock reading ms
NoExpires == <<0, NULLT>>

\* lines 187-188: new Date(), then setFullYear(getFullYear() + 2)
cIDExpiryOf(clock) == <<2, clock>>

\* line 191: new Date(Date.now() + finalConfig.sessionTimeout)
sessionExpiryOf(clock) == <<0, clock + SessionTimeout>>

\* the four writes all carrying the session expiry
SetExpires_SessionOnly(clock) ==
    [k \in {"cID", "sID", "eID", "seqID"} |-> sessionExpiryOf(clock)]

\* lines 189-195: the expires option of each of the four writes
SetExpires(clock) ==
    [k \in {"cID", "sID", "eID", "seqID"} |->
        IF k = "cID" THEN cIDExpiryOf(clock) ELSE sessionExpiryOf(clock)]

\* no call yet
NoResult == [Thrown("", 0) EXCEPT !.status = "none"]

\* the four reads of lines 122-125
GetLog == << <<"get", "cID">>, <<"get", "sID">>, <<"get", "eID">>,
             <<"get", "seqID">> >>

\* the four writes of lines 189-195
SetLog(ns) == << <<"set", "cID", ns.cID>>, <<"set", "sID", ns.sID>>,
                 <<"set", "eID", ns.eID>>, <<"set", "seqID", ns.seqID>> >>

\* lines 122-129: the four reads and the three decoded times
ReadOld(st) ==
    [cID |-> st["cID"], sID |-> st["sID"], eID |-> st["eID"],
     seqID |-> st["seqID"],
     cIDTime     |-> IF Truthy(st["cID"]) THEN decodeTime(st["cID"]) ELSE NULLT,
     sIDTime     |-> IF Truthy(st["sID"]) THEN decodeTime(st["sID"]) ELSE NULLT,
     prevEIDTime |-> IF Truthy(st["eID"]) THEN decodeTime(st["eID"]) ELSE NULLT]

\* lines 131-136
oldStateOf(old) ==
    [cID |-> old.cID, sID |-> old.sID, eID |-> old.eID, seqID |-> old.seqID,
     clientTime  |-> DateOrNull(old.cIDTime),
     sessionTime |-> DateOrNull(old.sIDTime),
     eventTime   |-> DateOrNull(old.prevEIDTime)]

\* lines 138-148, clock being Date.now() at line 142
changesOf(old, clock) ==
    [isNewClient  |-> isNewClientOf(old.cID),
     isNewSession |->
        isNewSessionOf(old.sID,
            isSessionExpiredOf(lastActivityTimeOf(old.prevEIDTime,
                                                  old.sIDTime, old.cIDTime),
                               clock))]

\* pushID.newObj / pushID.newID({length: randomnessLength, stub})
MintId(stub, clock, sd) ==
    _generateObject([time |-> NULLT, length |-> RandomnessLength,
                     randomness |-> NULL, stub |-> stub], clock, sd)

\* finalCIDOf replacing the stored cID on every call
finalCIDOf_Renewed(cID, stubs, newCID, newEID) ==
    IF stubs THEN newCID ELSE newEID

\* line 153: cID || (useStubs ? pushID.newID({stub: 'cID'}) : newEIDObj.id)
finalCIDOf(cID, stubs, newCID, newEID) ==
    IF Truthy(cID) THEN cID ELSE IF stubs THEN newCID ELSE newEID

\* finalSIDOf keeping a stored sID through a session rollover
finalSIDOf_Stale(sID, isNewSession, stubs, newSID, newEID) ==
    IF isNewSession /\ ~Truthy(sID)
    THEN (IF stubs THEN newSID ELSE newEID) ELSE sID

\* lines 154-157
finalSIDOf(sID, isNewSession, stubs, newSID, newEID) ==
    IF isNewSession THEN (IF stubs THEN newSID ELSE newEID) ELSE sID

\* clientSession.js line 112, expires && Date.now() > expires: a date moved
\* years on lies beyond every clock reading followed
Expired(e, clock) == e[1] = 0 /\ TruthyNum(e[2]) /\ clock > e[2]

\* the values of a storage that are still there at clock, each stored value
\* having the expires option of its write
Live(st, ex, clock) ==
    [k \in DOMAIN st |-> IF Expired(ex[k], clock) THEN NULL ELSE st[k]]

\* line 153 calls pushID.newID for the cID
MintsCID(old, stubs) == ~Truthy(old.cID) /\ stubs

\* line 154 calls pushID.newID for the sID
MintsSID(changes, stubs) == changes.isNewSession /\ stubs

\* lines 176-198: the new state, the writes and the returned value, given
\* the old state, the changes, the clock at the start and at the end of
\* the call, and the objects minted for the eID, the cID
\* and the sID (genC and genS repeat the object before them when the call
\* mints none)
ProcessOut(h, st, old, changes, stubs, clock, end, genE, genC, genS) ==
    LET finalCID == finalCIDOf(old.cID, stubs, genC.obj.id, genE.obj.id)
        finalSID == finalSIDOf(old.sID, changes.isNewSession, stubs,
                               genS.obj.id, genE.obj.id)
        newState == [cID |-> finalCID, sID |-> finalSID,
                     eID |-> genE.obj.id,
                     seqID |-> finalSeqIDOf(old.seqID, changes.isNewSession),
                     clientTime  |-> DateOf(decodeTime(finalCID)),
                     sessionTime |-> DateOf(decodeTime(finalSID)),
                     eventTime   |-> genE.obj.date]
    IN  IF THROWN \in {decodeTime(finalCID), decodeTime(finalSID)}
        THEN [result |-> [Thrown("decode", clock) EXCEPT !.end = end],
              store |-> st, log |-> GetLog]
        ELSE IF ConfigThrows(h)
        THEN [result |-> [Thrown("TypeError: storageHandler.config is undefined",
                                 clock) EXCEPT !.end = end],
              store |-> st, log |-> GetLog]
        ELSE [result |-> ReturnOf("ok", "", newState, oldStateOf(old),
                                  changes, clock, end),
              store |-> [k \in Keys |-> newState[k]],
              log |-> GetLog \o SetLog(newState)]

\* ------------------------------------------------------------------------
\* The state machine: one manager, one storage, the clock and the prng
\* ------------------------------------------------------------------------

\* the latest clock value at which the environment still lets time pass
MaxNow == 7

\* the number of process() calls followed
MaxCalls == 3

\* the milliseconds that may pass between two readings of the clock inside
\* one process() call
MaxDrift == 1

\* the prng seeds at load time, (Date.now() >>> 0) % 0xFFFFFFFF: 1, and
\* 1144735523 = 17467 * 2^16 + 18211
Seeds == { <<0, 1>>, <<17467, 18211>> }

VARIABLES
    now,        \* Date.now()
    seed,       \* the seed of prng
    lastIdObj,  \* the id of the object cached by _generateObject
    useStubs,   \* finalConfig.useStubs
    store,      \* what storageHandler.get returns for each key
    result,     \* what the latest process() call returned, or that it threw
    prev,       \* result before the latest call
    handler,    \* the storage handler the latest call was given
    log,        \* the calls the latest operation made on its handler
    minted,     \* the identifiers the latest process() call generated
    calls,      \* the number of process() calls so far
    mem,        \* the state object of an inMemoryStorageHandler
    requests,   \* the Cookie headers of the requests on their way
    call,       \* the latest call of a pushID function: name, arguments,
                \* returned value
    expiry      \* the expires option process() last gave to set, for each
                \* key

vars == <<now, seed, lastIdObj, useStubs, store, result, prev, handler, log,
          minted, calls, mem, requests, call, expiry>>

EmptyStore == [k \in Keys |-> NULL]

\* no pushID function called yet
NoCall == [op |-> "none"]

InitRest ==
    /\ now = 1
    /\ seed \in Seeds
    /\ lastIdObj = NULL
    /\ useStubs \in BOOLEAN
    /\ result = NoResult
    /\ prev = NoResult
    /\ handler = "none"
    /\ log = <<>>
    /\ minted = 0
    /\ mem = EmptyStore
    /\ requests = <<>>
    /\ call = NoCall
    /\ expiry = [k \in Keys |-> NoExpires]

\* a fresh client: nothing stored
Init == store = EmptyStore /\ calls = 0 /\ InitRest

\* twelve characters of randomness
Rnd12 == [i \in 1..12 |-> "A"]

\* a legacy id minted at time t
LegacyId(t) == EncodeTime(t) \o Rnd12

\* a delimited id minted at time t
TaggedId(t, stub) == EncodeTime(t) \o <<"-">> \o stub \o <<"-">> \o Rnd12

\* an id whose time field holds a character outside the alphabet
CorruptId == [LegacyId(3) EXCEPT ![1] = "!"]

\* the time embedded in the decodable ids found in storage
StoredTime == 3

\* what a storage not written by this manager alone (a cookie jar the
\* client can edit) may hold for cID, sID and eID
StoredIds == {NULL, CorruptId, LegacyId(0), LegacyId(StoredTime),
              TaggedId(StoredTime, <<"i", "d">>)}

\* and for seqID
StoredSeqs == {NULL, <<"2", "-", "3">>, <<"-", "5">>, <<"3", "-", "z">>,
               <<"7">>, <<"1", "-", "2", "-", "3">>}

\* any storage content, followed for one process() call
InitAny ==
    /\ store \in [Keys -> StoredIds \cup StoredSeqs]
    /\ store["cID"] \in StoredIds
    /\ store["sID"] \in StoredIds
    /\ store["eID"] \in StoredIds
    /\ store["seqID"] \in StoredSeqs
    /\ calls = MaxCalls - 1
    /\ InitRest
    /\ seed = <<0, 1>>

\* the caller is followed for MaxCalls calls, or until process() throws
Running == calls < MaxCalls /\ result.status # "throw"

\* time passes
Tick ==
    /\ Running
    /\ now < MaxNow
    /\ now' = now + 1
    /\ UNCHANGED <<seed, lastIdObj, useStubs, store, result, prev, handler,
                   log, minted, calls, mem, requests, call,
                   expiry>>

\* manager.process({storageHandler: h}), st being what h.get returns for
\* each key: everything but what becomes of the values set.  now is
\* Date.now() at line 142; dE, dC and dS are the milliseconds that pass
\* before each later reading of the clock, when the eID, the cID and the
\* sID are minted.
Reduce(h, st) ==
    /\ Running
    /\ prev' = result
    /\ handler' = h
    /\ calls' = calls + 1
    /\ UNCHANGED useStubs
    /\ IF MissingHandler(h)
       THEN /\ result' = Thrown("A storageHandler must be provided", now)
            /\ log' = <<>>
            /\ minted' = 0
            /\ UNCHANGED <<now, seed, lastIdObj, expiry>>
       ELSE \E old \in {ReadOld(st)} :
            IF THROWN \in {old.cIDTime, old.sIDTime, old.prevEIDTime}
            THEN /\ result' = Thrown("decode", now)
                 /\ log' = GetLog
                 /\ minted' = 0
                 /\ UNCHANGED <<now, seed, lastIdObj, expiry>>
            ELSE
            \E changes \in {changesOf(old, now)} :
            \E dE \in 0..MaxDrift :
            \E genE \in {MintId(IF useStubs THEN StubE ELSE NULL,
                                now + dE, seed)} :
            \E dC \in IF MintsCID(old, useStubs) THEN 0..MaxDrift ELSE {0} :
            \E genC \in {IF MintsCID(old, useStubs)
                         THEN MintId(StubC, now + dE + dC, genE.seed)
                         ELSE genE} :
            \E dS \in IF MintsSID(changes, useStubs) THEN 0..MaxDrift ELSE {0} :
            \E genS \in {IF MintsSID(changes, useStubs)
                         THEN MintId(StubS, now + dE + dC + dS, genC.seed)
                         ELSE genC} :
            \E out \in {ProcessOut(h, st, old, changes, useStubs, now,
                                   now + dE + dC + dS, genE, genC, genS)} :
                /\ result' = out.result
                /\ log' = out.log
                /\ expiry' = IF out.result.status = "ok"
                             THEN SetExpires(now + dE + dC + dS)
                             ELSE expiry
                /\ seed' = genS.seed
                /\ now' = now + dE + dC + dS
                /\ lastIdObj' = genS.obj.id
                /\ minted' = 1 + (IF MintsCID(old, useStubs) THEN 1 ELSE 0)
                               + (IF MintsSID(changes, useStubs) THEN 1 ELSE 0)

\* the four raw values of a state
Raw(state) == [k \in Keys |-> state[k]]

\* what h.get returns for each key, the storage holding st and the state
\* object of the in-memory handler m (part_002 line 98: state[key] ||
\* this.storage.get(key, cookieHeader))
Visible(h, st, m) ==
    IF h = "stateless" THEN EmptyStore
    ELSE IF h = "memory"
    THEN [k \in Keys |-> IF Truthy(m[k]) THEN m[k]
                         ELSE IF Truthy(st[k]) THEN st[k] ELSE NULL]
    ELSE IF h = "expiring" THEN Live(st, expiry, now)
    ELSE st

\* a process() that treats every handler as one that returns what was last
\* set
Process_Sticky(h) ==
    /\ Reduce(h, store)
    /\ store' = IF result'.status = "ok"
                THEN Raw(result'.newState) ELSE store
    /\ UNCHANGED <<mem, requests, call>>

\* manager.process({storageHandler: h}) and what h.set does with the four
\* values: the storage keeps them, the in-memory handler keeps them in its
\* state object, serverStorage().set keeps nothing
Process(h) ==
    /\ Reduce(h, Visible(h, store, mem))
    /\ store' = IF h \in {"bare", "full", "expiring"}
                      /\ result'.status = "ok"
                THEN Raw(result'.newState) ELSE store
    /\ mem' = IF h = "memory" /\ result'.status = "ok"
              THEN Raw(result'.newState) ELSE mem
    /\ UNCHANGED <<requests, call>>

\* process() with a StorageHandler (get, set, clear, config)
ProcessFull == Process("full")

\* process() with an object that has get and set only
ProcessBare == Process("bare")

\* process() or process({}) : no storage handler
ProcessNoHandler == Process("none")

\* the log of a handler whose latest operation was clear()
ClearLog == << <<"clear">> >>

\* new Date("2038-01-19T03:14:07.000Z") of part_002 line 115, in seconds:
\* a time the clock never reaches
CIDExpiry == 2147483647

\* the Set-Cookie headers serverStorage().clear() returns: for each key an
\* empty value that expires at the epoch (the _ss_ and the _cs_ cookie of
\* a key are set alike, and get reads them alike)
ClearHeaders == [k \in Keys |-> [value |-> <<>>, expires |-> 0]]

\* the cookie jar after the browser has applied such headers at time
\* clock: a cookie that has expired is removed
ApplySetCookie(jar, headers, clock) ==
    [k \in Keys |-> IF headers[k].expires <= clock THEN NULL
                    ELSE headers[k].value]

\* clientStorage().clear(): each of the four cookies is expired and each of
\* the four localStorage items is removed.  Handler "full" stands for a
\* storage kept by the browser: clientStorage(), or serverStorage() with
\* its headers applied.
Clear ==
    /\ Running
    /\ handler # "memory"
    /\ store' = EmptyStore
    /\ handler' = "full"
    /\ log' = ClearLog
    /\ UNCHANGED <<now, seed, lastIdObj, useStubs, result, prev, minted,
                   calls, mem, requests, call, expiry>>

\* serverStorage().clear(), the browser applying the headers it returns
ClearServer ==
    /\ Running
    /\ handler # "memory"
    /\ store' = ApplySetCookie(store, ClearHeaders, now)
    /\ handler' = "full"
    /\ log' = ClearLog
    /\ UNCHANGED <<now, seed, lastIdObj, useStubs, result, prev, minted,
                   calls, mem, requests, call, expiry>>

\* process() with the inMemoryStorageHandler of a request whose Cookie
\* header carries store
ProcessMemory == Process("memory")

\* the clear() of that handler (part_002 lines 102-104): state = {}
ClearMemory ==
    /\ Running
    /\ mem' = EmptyStore
    /\ handler' = "memory"
    /\ log' = ClearLog
    /\ UNCHANGED <<now, seed, lastIdObj, useStubs, store, result, prev,
                   minted, calls, requests, call, expiry>>

Next == Tick \/ ProcessFull \/ ProcessBare \/ ProcessNoHandler

\* one client from its first visit on, its storage returning what was last
\* set
Spec == Init /\ [][Next]_vars

\* a client whose storage holds anything
SpecAny == InitAny /\ [][Next]_vars

\* process() with serverStorage() itself as the storage handler: its get,
\* called without a cookie header, returns null, and its set returns two
\* header strings and stores nothing
ProcessStateless == Process("stateless")

NextStateless == Tick \/ ProcessStateless

\* the module loaded with the first of the seeds; the last two calls are
\* followed, the earlier ones having left nothing behind
InitStateless ==
    /\ store = EmptyStore /\ calls = MaxCalls - 2 /\ InitRest
    /\ seed = <<0, 1>>

\* one manager whose storage handler never returns anything
SpecStateless == InitStateless /\ [][NextStateless]_vars

\* process() with clientStorage() as the storage handler
ProcessExpiring == Process("expiring")

NextExpiring == Tick \/ ProcessExpiring

InitExpiring == Init /\ seed = <<0, 1>>

\* one client whose storage enforces the expires option of each write
SpecExpiring == InitExpiring /\ [][NextExpiring]_vars

\* a client whose storage is also cleared; once a request is being served
\* through an in-memory handler, the calls are made on that handler
ProcessStored == handler # "memory" /\ ProcessFull

NextClear ==
    Tick \/ ProcessStored \/ ProcessMemory \/ Clear \/ ClearServer
         \/ ClearMemory

InitClear == Init /\ seed = <<0, 1>> /\ useStubs = FALSE

SpecClear == InitClear /\ [][NextClear]_vars


\* ------------------------------------------------------------------------
\* SessionManagerDO (v1.1.0) and the browser of one client
\* ------------------------------------------------------------------------

\* the requests of the client that may be on their way at once
MaxInFlight == 2

\* the Durable Object is constructed with sessionManager(): useStubs is
\* false.  store is the cookie jar of the client's browser.
InitDO == Init /\ useStubs = FALSE

\* the browser sends a request: its Cookie header carries the jar as it is
\* now
Send ==
    /\ Running
    /\ Len(requests) < MaxInFlight
    /\ calls + Len(requests) < MaxCalls
    /\ requests' = Append(requests, store)
    /\ UNCHANGED <<now, seed, lastIdObj, useStubs, store, result, prev,
                   handler, log, minted, calls, mem, call, expiry>>

\* lines 114-123: the Set-Cookie headers built from newState, clock being
\* Date.now() at line 116
SetCookieHeaders(newState, clock) ==
    [k \in Keys |-> [value |-> newState[k],
                     expires |-> IF k = "cID" THEN CIDExpiry
                                 ELSE clock + SessionTimeout]]

\* the sequence s without its i-th element
Remove(s, i) == SubSeq(s, 1, i - 1) \o SubSeq(s, i + 1, Len(s))

\* SessionManagerDO.process(cookieHeader) for one of the requests on their
\* way, whichever arrives first: the session logic runs on a new in-memory
\* handler that falls back on the Cookie header, and the browser applies
\* the eight Set-Cookie headers built from newState (a _ss_ and a _cs_
\* cookie for each key, both with the same value, none expired)
DOProcess ==
    \E i \in 1..Len(requests) :
        /\ Reduce("memory", Visible("memory", requests[i], EmptyStore))
        /\ store' = IF result'.status = "ok"
                    THEN ApplySetCookie(store,
                                        SetCookieHeaders(result'.newState,
                                                         now'), now')
                    ELSE store
        /\ requests' = Remove(requests, i)
        /\ UNCHANGED <<mem, call>>

NextDO == Tick \/ Send \/ DOProcess

\* one client and the Durable Object that serves it
SpecDO == InitDO /\ [][NextDO]_vars

\* ------------------------------------------------------------------------
\* sessionManager (v4.4.0, self-contained) on the strict codec
\*
\* store and expiry are the cookies of the client named cookiePrefix + key:
\* the ones document.cookie shows in the browser, and the ones a request
\* of that browser carries in its Cookie header.  v4.4.0 keeps no seqID.
\* ------------------------------------------------------------------------

Keys_v4 == {"cID", "sID", "eID"}

\* the outcomes of Math.floor(Math.random() * 64) over the thirty-six
\* rounds that the newRnd calls of one process() call may make
MathRandoms == { [i \in 1..36 |-> 0], [i \in 1..36 |-> (5 * i) % 64] }

\* storageHandler.get(key), lines 346-366, for each key: in the browser the
\* cookies document.cookie shows; on a server there is no document
\* (_checkCookieEnabled catches the ReferenceError and returns false) and
\* no localStorage, and get returns null
InternalGet(env, cookies) ==
    IF env = "server" THEN [k \in DOMAIN cookies |-> NULL] ELSE cookies

\* storageHandler.set(key, value, cookieOpts), lines 367-381, for the three
\* keys: in the browser the cookies are written; on a server set does
\* nothing
InternalSet(env, cookies, newState) ==
    IF env = "server" THEN cookies
    ELSE [k \in DOMAIN cookies |->
             IF k \in Keys_v4 THEN newState[k] ELSE cookies[k]]

\* lines 401-406: the time of a stored identifier, null when there is none
OldTime_v4(id) == IF Truthy(id) THEN decodeTimeOf_v35(id) ELSE NULLW

\* lines 408-417
isSessionExpired_v4(cID, sID, prevEID, clock) ==
    LET lastActivityID == IF Truthy(prevEID) THEN prevEID
                          ELSE IF Truthy(sID) THEN sID ELSE cID
        lastActivityTime == decodeTimeOf_v35(lastActivityID)
    IN  IF ~Truthy(lastActivityID) THEN TRUE
        ELSE IF lastActivityTime = THROWNW THEN TRUE
        ELSE lastActivityTime[1] = 0
                /\ (clock - lastActivityTime[2]) > SessionTimeout

\* pushID.newID({length: randomnessLength, stub})
MintId_v4(stub, clock, draws) ==
    newID_v35([time |-> NULLW, stub |-> stub, length |-> RandomnessLength,
               randomness |-> NULL, data |-> JsUndefined], clock, draws)

\* lines 419-435: the new state and the changes
NewState_v4(st, expired, newEID, newCID, newSID) ==
    LET finalCID == IF Truthy(st["cID"]) THEN st["cID"] ELSE newCID
        finalSID == IF ~Truthy(st["sID"]) \/ expired THEN newSID
                    ELSE st["sID"]
    IN  [cID |-> finalCID, sID |-> finalSID, eID |-> newEID, seqID |-> NULL,
         clientTime  |-> decodeTimeOf_v35(finalCID),
         sessionTime |-> decodeTimeOf_v35(finalSID),
         eventTime   |-> decodeTimeOf_v35(newEID)]

\* manager.process(options) of v4.4.0, lines 396-446, run in env with
\* options.cookieHandler given or not.  Every read and write goes through
\* the manager's own storageHandler; log holds the calls made on the
\* handler given.
Process_v4(env, given) ==
    /\ Running
    /\ prev' = result
    /\ handler' = given
    /\ calls' = calls + 1
    /\ log' = <<>>
    /\ UNCHANGED <<seed, useStubs, mem, requests, call>>
    /\ \E st \in {InternalGet(env, Live(store, expiry, now))} :
       \E times \in {[k \in Keys_v4 |-> OldTime_v4(st[k])]} :
       IF \E k \in Keys_v4 : times[k] = THROWNW
       THEN /\ result' = Thrown("Invalid Push ID character", now)
            /\ minted' = 0
            /\ UNCHANGED <<now, lastIdObj, store, expiry>>
       ELSE
       \E expired \in {isSessionExpired_v4(st["cID"], st["sID"], st["eID"],
                                           now)} :
       \E mintsC \in {~Truthy(st["cID"])} :
       \E mintsS \in {~Truthy(st["sID"]) \/ expired} :
       \E dE \in 0..MaxDrift, random \in MathRandoms :
       \E dC \in IF mintsC THEN 0..MaxDrift ELSE {0} :
       \E dS \in IF mintsS THEN 0..MaxDrift ELSE {0} :
       \E rE \in {SubSeq(random, 1, 12)} :
       \E rC \in {IF mintsC THEN SubSeq(random, 13, 24) ELSE rE} :
       \E rS \in {IF mintsS
                  THEN SubSeq(random, IF mintsC THEN 25 ELSE 13,
                              IF mintsC THEN 36 ELSE 24)
                  ELSE rC} :
       \E newEID \in {MintId_v4(StubE, now + dE, rE)} :
       \E newCID \in {IF mintsC THEN MintId_v4(StubC, now + dE + dC, rC)
                      ELSE newEID} :
       \E newSID \in {IF mintsS
                      THEN MintId_v4(StubS, now + dE + dC + dS, rS)
                      ELSE newCID} :
       \E newState \in {NewState_v4(st, expired, newEID, newCID, newSID)} :
           /\ result' = ReturnOf("ok", "", newState,
                            [cID |-> st["cID"], sID |-> st["sID"],
                             eID |-> st["eID"], seqID |-> NULL,
                             clientTime  |-> times["cID"],
                             sessionTime |-> times["sID"],
                             eventTime   |-> times["eID"]],
                            [isNewClient |-> mintsC, isNewSession |-> mintsS],
                            now, now + dE + dC + dS)
           /\ now' = now + dE + dC + dS
           /\ lastIdObj' = newSID
           /\ minted' = 1 + (IF mintsC THEN 1 ELSE 0)
                          + (IF mintsS THEN 1 ELSE 0)
           /\ store' = InternalSet(env, store, newState)
           /\ expiry' = IF env = "server" THEN expiry
                        ELSE [k \in Keys |->
                                 IF k \in Keys_v4
                                 THEN SetExpires(now + dE + dC + dS)[k]
                                 ELSE expiry[k]]

\* manager.process() in the browser
ProcessBrowser_v4 == Process_v4("browser", "none")

\* manager.process({cookieHandler}) on a server, the handler reading the
\* Cookie header of a request of that browser
ProcessServer_v4 == Process_v4("server", "cookieHandler")

Next_v4 == Tick \/ ProcessBrowser_v4 \/ ProcessServer_v4

\* the last two calls of a client are followed, the browser holding no
\* cookie before them; v4.4.0 tags every identifier
Init_v4 ==
    /\ store = EmptyStore /\ calls = MaxCalls - 2 /\ InitRest
    /\ seed = <<0, 1>> /\ useStubs = TRUE

\* one client whose pages and whose server both run v4.4.0
Spec_v4 == Init_v4 /\ [][Next_v4]_vars

\* ------------------------------------------------------------------------

\* The pushID functions called directly
\* ------------------------------------------------------------------------

\* the timestamps passed as options.time: 0, 1, 63, 64, 2^24 - 1, 2^24,
\* 2^31 + 5, 2^32, 1792146097955, 2^42 - 1, 2^42 and 2^48 - 1
Times == { Wide(0), Wide(1), Wide(63), Wide(64), Wide(W24 - 1), <<1, 0>>,
           <<128, 5>>, <<256, 0>>, <<106820, 3884835>>,
           <<262143, W24 - 1>>, <<262144, 0>>, <<W24 - 1, W24 - 1>> }

\* the values of options.stub: none, the empty string, "cID" and "a-b"
Stubs == { NULL, <<>>, StubC, <<"a", "-", "b">> }

\* the values of options.length
Lengths == { 5, 13 }

Rnd14 == <<"a", "b", "-", "c", "d", "-", "e", "f", "g", "h", "i", "j",
           "k", "l">>

\* the values of options.randomness: none, "abc", "zz~" and
\* "ab-cd-efghijkl"
Randoms == { NULL, <<"a", "b", "c">>, <<"z", "z", "~">>, Rnd14 }

\* {b: "x", a: 1} and the same pairs inserted in the other order
ObjBA == JsObj(<< <<"b">>, <<"a">> >>, <<JsStr(<<"x">>), JsNum(1)>>)
ObjAB == JsObj(<< <<"a">>, <<"b">> >>, <<JsNum(1), JsStr(<<"x">>)>>)

\* the values of options.data: none and 7
Datas == { JsUndefined, JsNum(7) }

\* the strings passed to the decode functions: "", "abcde", "a-b-c", "--",
\* "!-b-c", "0-cID-", "1234567", "00000003", a legacy id, a delimited id,
\* an id with a character outside the alphabet, and a legacy id whose
\* randomness holds two hyphens
DecodeInputs ==
    { <<>>, <<"a", "b", "c", "d", "e">>, <<"a", "-", "b", "-", "c">>,
      <<"-", "-">>, <<"!", "-", "b", "-", "c">>,
      <<"0", "-", "c", "I", "D", "-">>,
      <<"1", "2", "3", "4", "5", "6", "7">>, EncodeTime(3),
      LegacyId(StoredTime), TaggedId(StoredTime, StubC), CorruptId,
      EncodeTime(5) \o Rnd14 }

\* the values hashed: null, undefined, 7, "7", "hello", [1, null, "a"], {},
\* {b: "x", a: 1}, {a: 1, b: "x"}, and two objects that nest these two
HashInputs ==
    { JsNull, JsUndefined, JsNum(7), JsStr(<<"7">>),
      JsStr(<<"h", "e", "l", "l", "o">>),
      JsArr(<<JsNum(1), JsNull, JsStr(<<"a">>)>>), JsObj(<<>>, <<>>),
      ObjBA, ObjAB,
      JsObj(<< <<"k">>, <<"B">>, <<"1", "0">>, <<"9">> >>,
            <<ObjBA, JsNum(2), JsNull, JsArr(<<>>)>>),
      JsObj(<< <<"9">>, <<"1", "0">>, <<"k">>, <<"B">> >>,
            <<JsArr(<<>>), JsNull, ObjAB, JsNum(2)>>) }

\* the lengths asked of hash
HashLengths == { 0, 12, 13, 21 }

\* one pushID module, loaded with seed 1 at clock 1
InitCodec ==
    /\ store = EmptyStore /\ calls = 0 /\ InitRest
    /\ seed = <<0, 1>> /\ useStubs = FALSE

\* pushID.newObj(options); a second call differs from the first in
\* options.time and options.randomness only
NewObj ==
    /\ call.op = "none" \/ (call.op = "newObj" /\ call.from.op = "none")
    /\ \E time \in Times \cup {NULLW}, stub \in Stubs, length \in Lengths,
          randomness \in Randoms, data \in Datas :
        /\ call.op = "newObj" =>
              /\ stub = call.options.stub
              /\ length = call.options.length
              /\ data = call.options.data
        /\ \E options \in {[time |-> time, stub |-> stub, length |-> length,
                            randomness |-> randomness, data |-> data]} :
           \E gen \in {_generateObjectW(options, now, seed)} :
              /\ call' = [op |-> "newObj", options |-> options,
                          ret |-> gen.obj, from |-> call]
              /\ seed' = gen.seed
              /\ lastIdObj' = gen.obj.id
    /\ UNCHANGED <<now, useStubs, store, result, prev, handler, log, minted,
                   calls, mem, requests, expiry>>

\* the argument of a decode call: one of DecodeInputs, or the id the
\* newObj call before it returned
DecodeArgs ==
    IF call.op = "none" THEN DecodeInputs
    ELSE IF call.op = "newObj" /\ call.from.op = "none" THEN {call.ret.id}
    ELSE {}

\* pushID.decodeID(id)
DecodeID ==
    /\ \E id \in DecodeArgs :
          call' = [op |-> "decodeID", id |-> id, ret |-> decodeID(id),
                   from |-> call]
    /\ UNCHANGED <<now, seed, lastIdObj, useStubs, store, result, prev,
                   handler, log, minted, calls, mem, requests,
                   expiry>>

\* pushID.tryDecodeID(id)
TryDecodeID ==
    /\ \E id \in DecodeArgs :
          call' = [op |-> "tryDecodeID", id |-> id, ret |-> tryDecodeIDW(id),
                   from |-> call]
    /\ UNCHANGED <<now, seed, lastIdObj, useStubs, store, result, prev,
                   handler, log, minted, calls, mem, requests,
                   expiry>>

\* pushID.decodeTime(id)
DecodeTime ==
    /\ \E id \in DecodeArgs :
          call' = [op |-> "decodeTime", id |-> id, ret |-> decodeTimeW(id),
                   from |-> call]
    /\ UNCHANGED <<now, seed, lastIdObj, useStubs, store, result, prev,
                   handler, log, minted, calls, mem, requests,
                   expiry>>

\* pushID.hash(input, length)
Hash ==
    /\ call.op = "none"
    /\ \E input \in HashInputs, length \in HashLengths :
          call' = [op |-> "hash", input |-> input, length |-> length,
                   ret |-> hash(input, length), from |-> call]
    /\ UNCHANGED <<now, seed, lastIdObj, useStubs, store, result, prev,
                   handler, log, minted, calls, mem, requests,
                   expiry>>

\* decodeID(id) of the strict codec (v3.5.0) and of the tolerant codec
\* (v3.6.0), called on the same string
DecodeBoth ==
    /\ \E id \in DecodeArgs :
          call' = [op |-> "decodeBoth", id |-> id,
                   strict |-> decodeID_v35(id), ret |-> decodeID(id),
                   from |-> call]
    /\ UNCHANGED <<now, seed, lastIdObj, useStubs, store, result, prev,
                   handler, log, minted, calls, mem, requests, expiry>>

NextCodec ==
    NewObj \/ DecodeID \/ TryDecodeID \/ DecodeTime \/ Hash \/ DecodeBoth

SpecCodec == InitCodec /\ [][NextCodec]_vars

\* ------------------------------------------------------------------------

\* Properties
\* ------------------------------------------------------------------------

\* a call returned, having read a storage that held none of the four keys
FirstCall(r) == r.status = "ok" /\ Raw(r.oldState) = EmptyStore

\* C1: the first process() call against a storage that holds none of cID,
\* sID, eID, seqID returns isNewClient = true, isNewSession = true and
\* seqID = "1-1", whatever useStubs is.
C1_FirstCallEmptyStorage ==
    FirstCall(result) =>
        /\ result.changes.isNewClient
        /\ result.changes.isNewSession
        /\ result.newState.seqID = <<"1", "-", "1">>

\* a first call has returned, with stubs enabled
C1_Witness == FirstCall(result) /\ useStubs /\ calls = 1


\* call r read the storage exactly as call p wrote it
Follows(r, p) ==
    r.status = "ok" /\ p.status = "ok" /\ Raw(r.oldState) = Raw(p.newState)

\* C2: a second process() call on the same storage, made within
\* sessionTimeout of the first call that started from empty storage, returns
\* isNewClient = false, isNewSession = false, seqID = "1-2", the cID and the
\* sID of the first call, and an eID different from the first call's eID.
C2_SecondCallWithinTimeout ==
    (FirstCall(prev) /\ Follows(result, prev)
       /\ result.at - prev.at <= SessionTimeout) =>
        /\ ~result.changes.isNewClient
        /\ ~result.changes.isNewSession
        /\ result.newState.seqID = <<"1", "-", "2">>
        /\ result.newState.cID = prev.newState.cID
        /\ result.newState.sID = prev.newState.sID
        /\ result.newState.eID # prev.newState.eID

\* C3: a process() call made more than sessionTimeout after the previous
\* call on the same storage, the previous state being one session with
\* seqID "1-n", returns isNewSession = true, an sID different from the
\* stored one, the stored cID, and seqID = "2-1".
C3_CallAfterTimeout ==
    (Follows(result, prev)
       /\ Split(prev.newState.seqID)[1] = <<"1">>
       /\ result.at - prev.end > SessionTimeout) =>
        /\ result.changes.isNewSession
        /\ result.newState.sID # result.oldState.sID
        /\ result.newState.cID = result.oldState.cID
        /\ result.newState.seqID = <<"2", "-", "1">>

\* a call has returned more than sessionTimeout after a call of the first
\* session that had itself continued that session
C3_Witness ==
    /\ Follows(result, prev)
    /\ prev.newState.seqID = <<"1", "-", "2">>
    /\ result.at - prev.end > SessionTimeout

\* C4: with a stored sID present and a decodable stored eID, isNewSession is
\* true if and only if (now - the time embedded in the stored eID) >
\* sessionTimeout.
C4_ExpiryOnStoredEID ==
    (result.status = "ok" /\ Truthy(result.oldState.sID)
       /\ Truthy(result.oldState.eID)
       /\ decodeTime(result.oldState.eID) # NULLT) =>
        (result.changes.isNewSession <=>
            (result.at - decodeTime(result.oldState.eID)) > SessionTimeout)

\* C5: once the storage holds a cID, every later process() call that
\* returns, returns exactly that cID and writes it back unchanged.
C5_ClientIdKept ==
    [][(calls' = calls + 1 /\ result'.status = "ok" /\ Truthy(store["cID"])) =>
          /\ result'.newState.cID = store["cID"]
          /\ store'["cID"] = store["cID"]
          /\ log'[5] = <<"set", "cID", store["cID"]>>]_vars

\* the third call and the second call both started a new session of a
\* client that was not new, and the cID is still the first call's
C5_Witness ==
    /\ calls = 3
    /\ Follows(result, prev)
    /\ result.changes.isNewSession /\ ~result.changes.isNewClient
    /\ prev.changes.isNewSession /\ ~prev.changes.isNewClient
    /\ store["cID"] = prev.oldState.cID

\* C6: in every process() call, isNewClient = true implies isNewSession =
\* true: a newly minted cID is never combined with a retained sID.
C6_Waterfall ==
    result.status = "ok" =>
        (result.changes.isNewClient => result.changes.isNewSession)

\* C7: process() given a storage handler never throws because of stored
\* values, whatever strings (or null) get returns for the four keys.
C7_NeverThrowsOnStoredValues ==
    (handler = "full" /\ result.status # "none") => result.status = "ok"

\* a call has returned after reading undecodable identifiers and an
\* unparseable seqID
C7_Witness ==
    /\ handler = "full" /\ result.status = "ok"
    /\ result.oldState.cID = CorruptId
    /\ result.oldState.sID = CorruptId
    /\ result.oldState.eID = CorruptId
    /\ result.oldState.seqID = <<"3", "-", "z">>

\* a stored identifier is there and does not decode
Corrupt(id) == Truthy(id) /\ decodeTime(id) = NULLT

\* C8: a stored identifier that cannot be decoded is treated as absent: a
\* corrupt stored cID gives isNewClient = true and a newly minted cID, a
\* corrupt stored sID gives isNewSession = true and a newly minted sID.
C8_CorruptTreatedAsAbsent ==
    result.status = "ok" =>
        /\ Corrupt(result.oldState.cID) =>
              /\ result.changes.isNewClient
              /\ result.newState.cID # result.oldState.cID
        /\ Corrupt(result.oldState.sID) =>
              /\ result.changes.isNewSession
              /\ result.newState.sID # result.oldState.sID

\* C9: process() called without a storage handler throws, and does so
\* before any get or set and before any identifier is minted.
C9_MissingHandlerThrowsFirst ==
    [][(calls' = calls + 1 /\ handler' = "none") =>
          /\ result'.status = "throw"
          /\ log' = <<>>
          /\ minted' = 0
          /\ store' = store
          /\ seed' = seed
          /\ lastIdObj' = lastIdObj]_vars

\* process() has thrown for want of a handler, on a storage that an
\* earlier call had filled
C9_Witness ==
    /\ handler = "none" /\ result.status = "throw"
    /\ prev.status = "ok" /\ store = Raw(prev.newState)

\* C10: for a handler that provides get and set and nothing else,
\* process() completes without error and calls set for all four keys.
C10_GetAndSetSuffice ==
    (handler = "bare" /\ result.status # "none") =>
        /\ result.status = "ok"
        /\ \A k \in Keys : \E i \in 1..Len(log) :
               log[i][1] = "set" /\ log[i][2] = k


\* C11: with a storage handler whose get always returns null and whose set
\* stores nothing, every process() call of a sequence of calls returns, and
\* returns isNewClient = true, isNewSession = true and seqID = "1-1".
C11_ForgetfulStorage ==
    (handler = "stateless" /\ result.status # "none") =>
        /\ result.status = "ok"
        /\ result.changes.isNewClient
        /\ result.changes.isNewSession
        /\ result.newState.seqID = <<"1", "-", "1">>

\* the last of MaxCalls calls on such a handler has returned, after a call
\* that had returned seqID "1-1" too, and nothing was ever stored
C11_Witness ==
    /\ calls = MaxCalls /\ handler = "stateless"
    /\ FirstCall(result) /\ FirstCall(prev)
    /\ prev.newState.seqID = <<"1", "-", "1">>
    /\ result.newState.eID # prev.newState.eID
    /\ store = EmptyStore


\* C12: with useStubs = false, every identifier newly minted in a process()
\* call is the same string as that call's eID: on a first call cID = sID =
\* eID, on a session rollover the new sID is the new eID, and a retained
\* cID or sID is returned as it was stored; one identifier is generated.
C12_MintedIdsAreTheEventId ==
    (result.status = "ok" /\ ~useStubs) =>
        /\ minted = 1
        /\ result.newState.cID =
              IF Truthy(result.oldState.cID) THEN result.oldState.cID
              ELSE result.newState.eID
        /\ result.newState.sID =
              IF result.changes.isNewSession THEN result.newState.eID
              ELSE result.oldState.sID
        /\ FirstCall(result) =>
              /\ result.newState.cID = result.newState.eID
              /\ result.newState.sID = result.newState.eID

\* without stubs, a session has rolled over for a known client: the stored
\* sID gave way to the new eID and the stored cID stayed
C12_Witness ==
    /\ result.status = "ok" /\ ~useStubs
    /\ Truthy(result.oldState.cID) /\ Truthy(result.oldState.sID)
    /\ result.changes.isNewSession
    /\ result.newState.sID = result.newState.eID
    /\ result.newState.sID # result.oldState.sID
    /\ result.newState.cID = result.oldState.cID
    /\ result.newState.cID # result.newState.eID


\* every character of str belongs to the alphabet
InAlphabet(str) == \A i \in 1..Len(str) : CHARS_MAP(str[i]) # UNDEFINED

\* c is a newObj call that was given a time
Generated(c) == c.op = "newObj" /\ c.options.time # NULLW

\* C13: for every timestamp t of [0, 2^48 - 1], the time field that
\* newObj writes for t is exactly 8 characters of the alphabet and decodes
\* back to exactly t.
C13_TimeRoundTrip ==
    Generated(call) =>
        /\ SubSeq(call.ret.id, 1, 8) = EncodeTimeW(call.options.time)
        /\ Len(EncodeTimeW(call.options.time)) = 8
        /\ InAlphabet(EncodeTimeW(call.options.time))
        /\ _decodeTimeW(SubSeq(call.ret.id, 1, 8)) = call.options.time

\* an id was generated for 2^48 - 1: its time field is "~~~~~~~~"
C13_Witness ==
    /\ Generated(call)
    /\ call.options.time = <<W24 - 1, W24 - 1>>
    /\ SubSeq(call.ret.id, 1, 8) = [i \in 1..8 |-> "~"]
    /\ call.ret.date = call.options.time

\* C14: two identifiers generated in the same format (both legacy, or both
\* tagged with the same tag) with randomness of the same length and
\* timestamps t1 < t2 of [0, 2^48 - 1] compare as id1 < id2 by character
\* codes, whatever their randomness.
C14_Sortable ==
    (Generated(call) /\ Generated(call.from)
       /\ call.ret.stub = call.from.ret.stub
       /\ Len(call.ret.randomness) = Len(call.from.ret.randomness)) =>
        /\ LessW(call.from.options.time, call.options.time) =>
              StrLess(call.from.ret.id, call.ret.id)
        /\ LessW(call.options.time, call.from.options.time) =>
              StrLess(call.ret.id, call.from.ret.id)

\* two ids tagged "cID" were generated for 2^24 - 1 and then for 2^24, the
\* earlier one with the greater randomness, and the earlier id is the
\* smaller string
C14_Witness ==
    /\ Generated(call) /\ Generated(call.from)
    /\ call.ret.stub = StubC /\ call.from.ret.stub = StubC
    /\ call.from.options.time = Wide(W24 - 1)
    /\ call.options.time = <<1, 0>>
    /\ call.from.ret.randomness = <<"z", "z", "~">>
    /\ call.ret.randomness = <<"a", "b", "c">>
    /\ StrLess(call.from.ret.id, call.ret.id)


\* id holds a hyphen
HasHyphen(id) == \E i \in 1..Len(id) : id[i] = "-"

\* id has the delimited form: a time field, a tag and randomness, joined by
\* two hyphens
Delimited(id) == Len(Split(id)) = 3

\* C15: for every newObj call with a time t of [0, 2^48 - 1], decoding the
\* returned id yields timestamp t, the same randomness string and the same
\* tag; the id is in tagged format exactly when the tag option is a
\* non-empty string, and an id generated with a null or empty tag is in
\* legacy format, without hyphens, and decodes with tag = null.
C15_GenerateDecodeRoundTrip ==
    (call.op = "decodeID" /\ Generated(call.from)) =>
        /\ call.ret # NullObjW
        /\ call.ret.date = call.from.options.time
        /\ call.ret.randomness = call.from.ret.randomness
        /\ call.ret.stub = call.from.ret.stub
        /\ Delimited(call.id) <=> Truthy(call.from.options.stub)
        /\ ~Truthy(call.from.options.stub) =>
              /\ ~HasHyphen(call.id)
              /\ call.ret.stub = NULL

\* C16: the randomness part of every identifier that newObj returns has at
\* least 12 characters, whatever length is asked for and whichever of the
\* options randomness, data or neither is given.
C16_RandomnessAtLeastTwelve ==
    call.op = "newObj" => Len(call.ret.randomness) >= 12

\* C17: the tolerant decodeID, tryDecodeID and decodeTime return null, and
\* do not throw, for every string of fewer than 8 characters.
C17_ShortStringsDecodeToNull ==
    (call.op \in {"decodeID", "tryDecodeID", "decodeTime"}
       /\ Len(call.id) < 8) =>
        IF call.op = "decodeTime" THEN call.ret = NULLW
        ELSE call.ret = NullObjW


\* x and y are the same JavaScript value, objects being the same when they
\* hold the same key/value pairs, in whatever order these were inserted
RECURSIVE SameValue(_, _)
SameValue(x, y) ==
    /\ x.type = y.type /\ x.n = y.n /\ x.s = y.s
    /\ Len(x.items) = Len(y.items)
    /\ IF x.type = "object"
       THEN /\ {x.keys[i] : i \in 1..Len(x.keys)}
                 = {y.keys[i] : i \in 1..Len(y.keys)}
            /\ \A i \in 1..Len(x.keys) :
                  SameValue(x.items[i], Prop(y, x.keys[i]))
       ELSE \A i \in 1..Len(x.items) : SameValue(x.items[i], y.items[i])

\* C18: hash(x, n) depends only on the canonical serialization of x and on
\* n: a repeated call with the same x and n, a call with an x holding the
\* same key/value pairs inserted in another order, and a call with an x
\* that serializes alike return the same string; that string has length
\* max(12, n) and holds characters of the alphabet only.
C18_HashOfCanonicalForm ==
    call.op = "hash" =>
        /\ Len(call.ret) = Max(12, call.length)
        /\ InAlphabet(call.ret)
        /\ hash(call.input, call.length) = call.ret
        /\ \A y \in HashInputs :
              (SameValue(call.input, y)
                 \/ _serialize(y) = _serialize(call.input)) =>
                  hash(y, call.length) = call.ret

\* 21 characters were asked for the object that nests {b: "x", a: 1}:
\* the object with the same pairs in another order, at both levels, is one
\* of the inputs, and its keys are not in sorted order
C18_Witness ==
    /\ call.op = "hash" /\ call.length = 21 /\ Len(call.ret) = 21
    /\ call.input.type = "object" /\ Len(call.input.keys) = 4
    /\ call.input.items[1] = ObjBA
    /\ SortKeys(call.input.keys) # call.input.keys
    /\ \E y \in HashInputs :
          /\ y # call.input /\ SameValue(call.input, y)
          /\ y.keys # call.input.keys
          /\ ObjAB \in {y.items[i] : i \in 1..Len(y.items)}


\* C19: SessionManagerDO prevents session race conditions: no two
\* process(cookieHeader) calls made for the same client, in whatever order
\* they arrive and even when they carry the same Cookie header, return the
\* same seqID, and no two of them mint different new sIDs for the same
\* session.
C19_NoSessionRace ==
    (handler = "memory" /\ result.status = "ok" /\ prev.status = "ok") =>
        /\ result.newState.seqID # prev.newState.seqID
        /\ ~ /\ result.changes.isNewSession
             /\ prev.changes.isNewSession
             /\ Raw(result.oldState) = Raw(prev.oldState)
             /\ result.newState.sID # prev.newState.sID


\* the latest operation on the storage handler was clear()
Cleared == log = ClearLog

\* C20: clear() makes the storage handler forget all four keys: after
\* clear(), get returns null for each of cID, sID, eID and seqID, and the
\* next process() call on that handler behaves as a first call
\* (isNewClient = true, isNewSession = true, seqID = "1-1"); this for the
\* client storage, for the server storage once the browser has applied the
\* headers returned, and for the in-memory handler of the Durable Object.
C20_ClearForgetsAllKeys ==
    [][/\ Cleared' => Visible(handler', store', mem') = EmptyStore
       /\ (Cleared /\ calls' = calls + 1 /\ handler' = handler) =>
             /\ FirstCall(result')
             /\ result'.changes.isNewClient
             /\ result'.changes.isNewSession
             /\ result'.newState.seqID = <<"1", "-", "1">>]_vars


\* the calls process() of v4.4.0 would make on a cookie handler that it
\* read and wrote through
HandlerLog_v4(newState) ==
    << <<"get", "cID">>, <<"get", "sID">>, <<"get", "eID">>,
       <<"set", "cID", newState.cID>>, <<"set", "sID", newState.sID>>,
       <<"set", "eID", newState.eID>> >>

\* C21: in v4.4.0, process(options) called with a cookieHandler reads the
\* previous cID, sID and eID through that handler's get and writes the new
\* ones through that handler's set: the old state it returns is what the
\* request's cookies hold, and a cookie the request carries for cID is the
\* cID returned.
C21_CookieHandlerUsed ==
    [][(calls' = calls + 1 /\ handler' = "cookieHandler"
          /\ result'.status = "ok") =>
          /\ \A k \in Keys_v4 :
                result'.oldState[k] = Live(store, expiry, now)[k]
          /\ Truthy(Live(store, expiry, now)["cID"]) =>
                result'.newState.cID = store["cID"]
          /\ log' = HandlerLog_v4(result'.newState)]_vars


\* the session number and the event number of a sequence id that
\* process() returned
SessionNumber(seqID) == Number(Split(seqID)[1])
EventNumber(seqID) == Number(Split(seqID)[2])

\* C22: within one session the event counter counts every call: a call
\* that reads the seqID the previous call wrote and starts no new session
\* returns the same sessionNumber and the eventNumber increased by exactly
\* 1, so that n calls from empty storage within the timeout give "1-1",
\* "1-2", ..., "1-n".
C22_EventCounter ==
    (Follows(result, prev) /\ ~result.changes.isNewSession) =>
        /\ result.newState.seqID =
              ToStr(SessionNumber(prev.newState.seqID)) \o <<"-">>
                 \o ToStr(EventNumber(prev.newState.seqID) + 1)
        /\ (~prev.changes.isNewSession /\ calls = 3
              /\ SessionNumber(prev.newState.seqID) = 1) =>
              result.newState.seqID = <<"1", "-", "3">>

\* three calls from empty storage, none after the first starting a new
\* session: the third returns "1-3"
C22_Witness ==
    /\ calls = 3 /\ Follows(result, prev)
    /\ ~result.changes.isNewSession /\ ~prev.changes.isNewSession
    /\ prev.newState.seqID = <<"1", "-", "2">>
    /\ result.newState.seqID = <<"1", "-", "3">>


\* str is a non-empty string of decimal digits
IsInteger(str) ==
    Len(str) > 0 /\ \A i \in 1..Len(str) : DigitValue(str[i]) # NAN

\* seqID is there and has the form "<integer>-<integer>"
WellFormedSeq(seqID) ==
    /\ Truthy(seqID)
    /\ Len(Split(seqID)) = 2
    /\ IsInteger(Split(seqID)[1])
    /\ IsInteger(Split(seqID)[2])

\* C23: whenever the stored seqID is absent or is not of the form
\* "<integer>-<integer>", process() returns seqID = "1-1", both when the
\* session is new and when it is not; a seqID of that form is incremented.
C23_SeqFallback ==
    result.status = "ok" =>
        IF WellFormedSeq(result.oldState.seqID)
        THEN result.newState.seqID =
                IF result.changes.isNewSession
                THEN ToStr(SessionNumber(result.oldState.seqID) + 1)
                        \o <<"-", "1">>
                ELSE ToStr(SessionNumber(result.oldState.seqID)) \o <<"-">>
                        \o ToStr(EventNumber(result.oldState.seqID) + 1)
        ELSE result.newState.seqID = <<"1", "-", "1">>


\* C24: sessionNumber counts the sessions of a client: from empty storage,
\* the first call returns sessionNumber 1 and reports a new session, and
\* every later call returns the sessionNumber of the call before it, plus
\* 1 exactly when it reports isNewSession = true; so the sessionNumber
\* equals the number of calls so far that reported a new session, also when
\* the storage enforces the expires option it was given in set.
C24_SessionNumberCounts ==
    result.status = "ok" =>
        /\ prev.status = "none" =>
              /\ result.changes.isNewSession
              /\ SessionNumber(result.newState.seqID) = 1
        /\ prev.status = "ok" =>
              SessionNumber(result.newState.seqID) =
                 SessionNumber(prev.newState.seqID)
                    + (IF result.changes.isNewSession THEN 1 ELSE 0)


\* C25: every successful process() call calls storageHandler.set exactly
\* once for each of cID, sID, eID and seqID, after all four get calls, with
\* exactly the values of the returned newState; the cID write carries an
\* expiry two years after now and the other three writes carry the same
\* expiry now + sessionTimeout.  With a storage that returns what was last
\* set, get(k) after the call equals newState[k] for all four keys.
C25_WritesNewState ==
    [][(calls' = calls + 1 /\ result'.status = "ok") =>
          /\ log' = GetLog \o SetLog(result'.newState)
          /\ expiry'["cID"] = <<2, now'>>
          /\ \A k \in {"sID", "eID", "seqID"} :
                expiry'[k] = <<0, now' + SessionTimeout>>
          /\ handler' = "full" =>
                \A k \in Keys :
                   Visible("full", store', mem')[k] = result'.newState[k]]_vars

\* the second call of a client has returned after the clock moved inside
\* it: it wrote the stored cID back and three new values, all four with
\* expiries counted from the clock at the writes
C25_Witness ==
    /\ calls = 2 /\ handler = "full" /\ Follows(result, prev)
    /\ result.end > result.at
    /\ log = GetLog \o SetLog(result.newState)
    /\ store = Raw(result.newState)
    /\ store["cID"] = prev.newState.cID
    /\ expiry["cID"] = <<2, result.end>>
    /\ expiry["seqID"] = <<0, result.end + SessionTimeout>>


\* the fields of a session state
StateFields == {"cID", "sID", "eID", "seqID", "clientTime", "sessionTime",
                "eventTime"}

\* C26: in every process() result, oldState holds exactly the four raw
\* values read from storage before the call (oldState.eID is the eID
\* returned by the previous call), newState.eID is an identifier minted in
\* this call, the flattened top-level fields equal the newState fields, and
\* changes.isNewClient is true exactly when oldState.cID is absent.
C26_EventIdChaining ==
    [][(calls' = calls + 1 /\ result'.status = "ok") =>
          /\ Raw(result'.oldState) = store
          /\ result.status = "ok" =>
                result'.oldState.eID = result.newState.eID
          /\ minted' >= 1
          /\ decodeTime(result'.newState.eID) = result'.newState.eventTime
          /\ result'.at <= result'.newState.eventTime
          /\ result'.newState.eventTime <= result'.end
          /\ ~useStubs => lastIdObj' = result'.newState.eID
          /\ \A f \in StateFields : result'[f] = result'.newState[f]
          /\ result'.changes.isNewClient <=>
                ~Truthy(result'.oldState.cID)]_vars

\* a second call has returned: its oldState.eID is the eID the first call
\* returned, its own eID is another one, returned at the top level too,
\* and the client is not new
C26_Witness ==
    /\ calls = 2 /\ Follows(result, prev) /\ FirstCall(prev)
    /\ prev.changes.isNewClient
    /\ result.oldState.eID = prev.eID
    /\ result.eID = result.newState.eID
    /\ result.eID # result.oldState.eID
    /\ ~result.changes.isNewClient


\* a stored identifier is there and decodes
Decodes(id) == Truthy(id) /\ decodeTime(id) # NULLT

\* the time of the first of the stored eID, sID and cID that decodes, NULLT
\* when none does
FirstDecoded(old) ==
    IF Decodes(old.eID) THEN decodeTime(old.eID)
    ELSE IF Decodes(old.sID) THEN decodeTime(old.sID)
    ELSE IF Decodes(old.cID) THEN decodeTime(old.cID)
    ELSE NULLT

\* C27: lastActivityTime is the first successfully decoded time among the
\* stored eID, then sID, then cID; a decoded time is used whatever its
\* value, and the session is expired by default only when none of the three
\* decodes: with a stored sID, isNewSession is true exactly when that time
\* lies more than sessionTimeout back, or when there is no such time.
C27_LastActivity ==
    (result.status = "ok" /\ Truthy(result.oldState.sID)) =>
        (result.changes.isNewSession <=>
            IF FirstDecoded(result.oldState) = NULLT THEN TRUE
            ELSE (result.at - FirstDecoded(result.oldState)) > SessionTimeout)


\* C28: expiry is inactivity-based, not age-based: on a storage that
\* returns what was last set, a call that starts at most sessionTimeout
\* after the previous call started keeps the sID and reports isNewSession =
\* false, however long ago the sID was minted.
C28_InactivityBased ==
    (Follows(result, prev) /\ result.at - prev.at <= SessionTimeout) =>
        /\ ~result.changes.isNewSession
        /\ result.newState.sID = prev.newState.sID
        /\ result.newState.sessionTime = prev.newState.sessionTime

\* a third call within the timeout of the second, as the second was of the
\* first, keeps an sID minted more than sessionTimeout before it
C28_Witness ==
    /\ calls = 3 /\ Follows(result, prev)
    /\ result.at - prev.at <= SessionTimeout
    /\ ~prev.changes.isNewSession
    /\ result.at - result.newState.sessionTime > SessionTimeout
    /\ result.newState.sID = prev.oldState.sID


\* C29: the strict codec (v3.5.0) and the tolerant codec (v3.6.0) decode
\* alike: for every input string, the strict decodeID throws exactly when
\* the tolerant decodeID returns null, and when neither fails both return
\* the same timestamp, randomness, tag and encoded time.
C29_CodecsDecodeAlike ==
    call.op = "decodeBoth" =>
        /\ (call.strict = ThrownObj) <=> (call.ret = NullObjW)
        /\ call.strict # ThrownObj =>
              /\ call.strict.date = call.ret.date
              /\ call.strict.randomness = call.ret.randomness
              /\ call.strict.stub = call.ret.stub
              /\ call.strict.encodedTime = call.ret.encodedTime

\* both codecs have decoded an id that newObj had minted with a time beyond
\* 2^32, the stub "a-b" and the randomness "ab-cd-efghijkl": a legacy id,
\* to both
C29_Witness ==
    /\ call.op = "decodeBoth" /\ call.from.op = "newObj"
    /\ call.from.options.time = <<106820, 3884835>>
    /\ call.from.options.stub = <<"a", "-", "b">>
    /\ call.from.options.randomness = Rnd14
    /\ call.strict # ThrownObj /\ call.ret # NullObjW
    /\ call.strict = call.ret
    /\ call.ret.stub = NULL


\* C30: in every process() result reached from empty storage under a
\* non-decreasing clock, the decoded times are ordered newState.clientTime
\* <= newState.sessionTime <= newState.eventTime, with useStubs = false and
\* with useStubs = true.
C30_TimesOrdered ==
    result.status = "ok" =>
        /\ result.newState.clientTime <= result.newState.sessionTime
        /\ result.newState.sessionTime <= result.newState.eventTime

====
